---- MODULE Spec2Model ----
(***************************************************************************)
(* Model of the secure session manager (SecureSessionMgr.cpp): its         *)
(* NotReady/Initialized state machine, the table of authenticated          *)
(* sessions, pairing, expiry and the outbound prepare/send path.           *)
(*                                                                         *)
(* The session table (PeerConnections), the counters and the codec are     *)
(* code of the repository that is not part of the sources at hand; they    *)
(* are modelled from the specification's sections 4.2 and 4.3.             *)
(***************************************************************************)
EXTENDS Integers, Sequences, FiniteSets, TLC

\* ------------------------------------------------------------------ bounds
\* Largest message counter a peer puts on an inbound datagram.
MaxPeerCounter == 2
\* Size of the replay window below max_seen.
WindowSize == 1
\* Idle time above which the sweep of the expiry timer removes a session.
PeerConnectionTimeout == 0
\* Capacity of the authenticated table (a compile-time configuration value).
MaxConnections == 2
\* Highest value a send counter reaches in the model.
MaxCounter == 2
\* Highest value of the monotonic clock in the model.
MaxTime == 1
\* Capacity of the unauthenticated table (a compile-time configuration value).
MaxUnauthenticated == 1

\* ------------------------------------------------------------ input domains
NULL == "nullptr"
NodeIds == {1, 2}
LocalIds == {1, 2}
Fabrics == {1, 2}

\* A PeerAddress is a transport type and, for UDP and TCP, an IP address;
\* ip 0 is Inet::IPAddress::Any.  Missing is Optional<PeerAddress>::Missing().
Missing == [type |-> "Missing", ip |-> 0]
Uninitialized == [type |-> "kUndefined", ip |-> 0]
Ble == [type |-> "kBle", ip |-> 0]
Udp(ip) == [type |-> "kUdp", ip |-> ip]
Tcp(ip) == [type |-> "kTcp", ip |-> ip]
PeerAddrInputs == {Missing, Ble, Udp(0), Udp(1), Tcp(0), Tcp(1)}

\* A PairingSession: the ids it yields, its initial peer counter and whether
\* DeriveSecureSession succeeds.
Pairings ==
    [localSessionId : LocalIds, deriveOk : BOOLEAN]
PeerSessionIdOf(pairing) == pairing.localSessionId + 10
PeerCounterOf(pairing) == 0

\* SessionHandle of an authenticated session: only the peer node id and the
\* local session id take part in resolving it.
Handles == [secure : {TRUE}, node : NodeIds, lsid : LocalIds, slot : {0}]

\* A payload header, as far as the manager reads it.
PayloadHeaders == [isControl : BOOLEAN, needsEncryption : BOOLEAN]

\* The buffer handed to SendPreparedMessage: null, a single buffer, a chained
\* buffer, or one whose writable clone cannot be made.
PreparedMessages == {"null", "single", "chained", "uncloneable"}

VARIABLES
    mState,          \* "kNotReady" or "kInitialized"
    mSystemLayer,    \* NULL or "sys"
    mTransportMgr,   \* NULL or "tm"
    mCB,             \* NULL or "cb": the upward delegate
    mPeerConnections,\* [1..MaxConnections -> session record]
    mUnauthenticatedSessions, \* [1..MaxUnauthenticated -> session record]
    mGlobalCounter,  \* the global send counter
    timerPending,    \* number of pending expiry timers at the system layer
    now,             \* the monotonic clock
    alive,           \* FALSE once the process has aborted or crashed
    op,              \* the last operation: its name, arguments and result
    cbs,             \* upward callbacks issued by the last operation
    tx               \* downward calls (transport, counter-sync service) of the last operation

vars == <<mState, mSystemLayer, mTransportMgr, mCB, mPeerConnections,
          mUnauthenticatedSessions, mGlobalCounter, timerPending, now, alive, op, cbs, tx>>

mgrVars == <<mState, mSystemLayer, mTransportMgr, mCB, timerPending>>

\* ------------------------------------------------------------ session table
Slots == 1..MaxConnections

\* A default-constructed PeerConnectionState: not initialized.
FreeSlot ==
    [used |-> FALSE, node |-> 0, lsid |-> 0, psid |-> 0, fabric |-> 0,
     addr |-> Uninitialized, sendCtr |-> 0, synced |-> FALSE, maxSeen |-> 0,
     window |-> {}, last |-> 0, keyed |-> FALSE]

\* The handle the manager builds from a session for its callbacks.
SessionHandleOf(s) ==
    [node |-> s.node, lsid |-> s.lsid, psid |-> s.psid, fabric |-> s.fabric]

Min(S) == CHOOSE x \in S : \A y \in S : x <= y

\* The first of the slots `hits` in table order, 0 (nullptr) when none.
FirstIn(hits) ==
    IF hits = {} THEN 0 ELSE Min(hits)

\* find_by_local_key: the first session with this local session id whose
\* peer node id is the one asked for.
FindPeerConnectionStateByLocalKey(c, nodeId, localSessionId) ==
    FirstIn({i \in Slots : /\ c[i].used
                           /\ c[i].lsid = localSessionId
                           /\ c[i].node = nodeId})

\* find_by_node_id with a cursor: the scan resumes at the slot after `begin`
\* (begin = 0 is nullptr: scan from the top).
FindPeerConnectionStateByNodeId(c, nodeId, begin) ==
    FirstIn({i \in Slots : i > begin /\ c[i].used /\ c[i].node = nodeId})

\* find_by_fabric: the first session of the fabric.
FindPeerConnectionStateByFabric(c, fabric) ==
    FirstIn({i \in Slots : c[i].used /\ c[i].fabric = fabric})

\* mark_active: last_activity_time_ms = now.
MarkConnectionActive(c, i, t) ==
    [c EXCEPT ![i].last = t]

\* mark_expired frees the slot; its on_expire callback is run by the caller
\* (see HandleConnectionExpired) before the slot is freed.
MarkConnectionExpired(c, i) ==
    [c EXCEPT ![i] = FreeSlot]

\* The least recently active slot, the first one in table order on a tie.
LeastRecentlyActive(c) ==
    Min({i \in Slots : \A j \in Slots : c[i].last <= c[j].last})

\* create: takes the first free slot; when the table is full it either
\* reports OutOfMemory or evicts the least recently active slot (`evict`).
\* Yields the table, the new slot (0 when none) and the evicted sessions.
CreateNewPeerConnectionState(c, peerNode, peerSessionId, localSessionId, t, evict) ==
    LET free == {i \in Slots : ~c[i].used}
        fresh == [FreeSlot EXCEPT !.used = TRUE, !.node = peerNode,
                                  !.psid = peerSessionId,
                                  !.lsid = localSessionId, !.last = t]
    IN  IF free # {}
        THEN [conns |-> [c EXCEPT ![Min(free)] = fresh], idx |-> Min(free),
              evicted |-> <<>>]
        ELSE IF evict
        THEN LET v == LeastRecentlyActive(c)
             IN  [conns |-> [c EXCEPT ![v] = fresh], idx |-> v,
                  evicted |-> <<c[v]>>]
        ELSE [conns |-> c, idx |-> 0, evicted |-> <<>>]

\* --------------------------------------------------------- expiry handler
\* HandleConnectionExpired: OnConnectionExpired upward when a delegate is
\* registered, then Disconnect on the transport manager.
ExpiredCallbacks(cb, expired) ==
    IF cb = NULL THEN <<>>
    ELSE [k \in 1..Len(expired) |->
            [cb |-> "OnConnectionExpired", session |-> SessionHandleOf(expired[k])]]

Disconnects(expired) ==
    [k \in 1..Len(expired) |-> [call |-> "Disconnect", addr |-> expired[k].addr]]

\* GetPeerConnectionState: resolves a handle through the table.
GetPeerConnectionState(c, session) ==
    FindPeerConnectionStateByLocalKey(c, session.node, session.lsid)

\* The number of loop iterations after which a scan of the table is given
\* up as not terminating: more than any scan that restarts only after a
\* removal can make.
MaxIterations == (MaxConnections + 1) * (MaxConnections + 1)

\* Mutant of ExpireAllPairingsStep: the scan restarts from the top after a
\* session of another fabric too.
ExpireAllPairingsStep_RestartAlways(c, peerNodeId, fabric, state) ==
    IF fabric = c[state].fabric
    THEN [conns |-> MarkConnectionExpired(c, state),
          state |-> FindPeerConnectionStateByNodeId(MarkConnectionExpired(c, state),
                                                    peerNodeId, 0),
          expired |-> <<c[state]>>]
    ELSE [conns |-> c,
          state |-> FindPeerConnectionStateByNodeId(c, peerNodeId, 0),
          expired |-> <<>>]

\* One iteration of the loop of ExpireAllPairings with the cursor on
\* `state`: a session of the fabric is expired and the scan restarts from
\* the top, a session of another fabric is passed by the cursor.
ExpireAllPairingsStep(c, peerNodeId, fabric, state) ==
    IF fabric = c[state].fabric
    THEN [conns |-> MarkConnectionExpired(c, state),
          state |-> FindPeerConnectionStateByNodeId(MarkConnectionExpired(c, state),
                                                    peerNodeId, 0),
          expired |-> <<c[state]>>]
    ELSE [conns |-> c,
          state |-> FindPeerConnectionStateByNodeId(c, peerNodeId, state),
          expired |-> <<>>]

\* ExpireAllPairings: the loop, `state` being the cursor (0 is nullptr) and
\* n the iterations made; it is given up after MaxIterations.
RECURSIVE ExpireAllPairingsLoop(_, _, _, _, _, _)
ExpireAllPairingsLoop(c, peerNodeId, fabric, state, expired, n) ==
    IF state = 0
    THEN [conns |-> c, expired |-> expired, terminated |-> TRUE, iterations |-> n]
    ELSE IF n >= MaxIterations
    THEN [conns |-> c, expired |-> expired, terminated |-> FALSE, iterations |-> n]
    ELSE LET st == ExpireAllPairingsStep(c, peerNodeId, fabric, state)
         IN  ExpireAllPairingsLoop(st.conns, peerNodeId, fabric, st.state,
                                   expired \o st.expired, n + 1)

\* ExpireAllPairingsForFabric: expire the first session of the fabric until
\* none is found.
RECURSIVE ExpireAllPairingsForFabricLoop(_, _, _, _, _)
ExpireAllPairingsForFabricLoop(c, fabric, state, expired, n) ==
    IF state = 0
    THEN [conns |-> c, expired |-> expired, terminated |-> TRUE, iterations |-> n]
    ELSE IF n >= MaxIterations
    THEN [conns |-> c, expired |-> expired, terminated |-> FALSE, iterations |-> n]
    ELSE LET c2 == MarkConnectionExpired(c, state)
         IN  ExpireAllPairingsForFabricLoop(c2, fabric,
                 FindPeerConnectionStateByFabric(c2, fabric),
                 Append(expired, c[state]), n + 1)

\* ------------------------------------------------- unauthenticated table
UnauthSlots == 1..MaxUnauthenticated

FreeUnauthenticated ==
    [used |-> FALSE, addr |-> Uninitialized, sendCtr |-> 0, last |-> 0,
     synced |-> FALSE, maxSeen |-> 0, window |-> {}]

\* mark_active on the unauthenticated table.
MarkSessionActive(u, i, t) ==
    [u EXCEPT ![i].last = t]

\* --------------------------------------------------------------- bookkeeping
\* The record of the last operation: its name, what it returned ("void" for
\* an operation that returns nothing, "abort" and "crash" when it did not
\* return) and its arguments.
Operation(name, ret, arg) ==
    [name |-> name, ret |-> ret, arg |-> arg]

Init ==
    /\ mState = "kNotReady"
    /\ mSystemLayer = NULL
    /\ mTransportMgr = NULL
    /\ mCB = NULL
    /\ mPeerConnections = [i \in Slots |-> FreeSlot]
    /\ mUnauthenticatedSessions = [i \in UnauthSlots |-> FreeUnauthenticated]
    /\ mGlobalCounter = 0
    /\ timerPending = 0
    /\ now = 0
    /\ alive = TRUE
    /\ op = Operation("SecureSessionMgr", "void", 0)
    /\ cbs = <<>>
    /\ tx = <<>>

\* --------------------------------------------------------------- lifecycle
\* Mutant of InitCheck: the state check is missing.
InitCheck_NoStateCheck(state, transportMgr) ==
    IF transportMgr = NULL THEN "CHIP_ERROR_INVALID_ARGUMENT" ELSE "CHIP_NO_ERROR"

\* The two precondition checks of SecureSessionMgr::Init.
InitCheck(state, transportMgr) ==
    IF state # "kNotReady" THEN "CHIP_ERROR_INCORRECT_STATE"
    ELSE IF transportMgr = NULL THEN "CHIP_ERROR_INVALID_ARGUMENT"
    ELSE "CHIP_NO_ERROR"

\* SecureSessionMgr::Init.  The system layer handed in is a live one; its
\* StartTimer may fail (timerOk), and ScheduleExpiryTimer then aborts.
\* op.arg is the transport manager handed in.
MgrInit(systemLayer, transportMgr, timerOk) ==
    /\ alive
    /\ cbs' = <<>>
    /\ UNCHANGED <<mCB, mPeerConnections, mUnauthenticatedSessions,
                   mGlobalCounter, now>>
    /\ IF InitCheck(mState, transportMgr) # "CHIP_NO_ERROR"
       THEN /\ op' = Operation("Init", InitCheck(mState, transportMgr), transportMgr)
            /\ tx' = <<>>
            /\ UNCHANGED <<mState, mSystemLayer, mTransportMgr, timerPending, alive>>
       ELSE /\ mState' = "kInitialized"
            /\ mSystemLayer' = systemLayer
            /\ mTransportMgr' = transportMgr
            /\ IF timerOk
               THEN /\ timerPending' = timerPending + 1
                    /\ tx' = <<[call |-> "SetSecureSessionMgr", addr |-> Uninitialized]>>
                    /\ op' = Operation("Init", "CHIP_NO_ERROR", transportMgr)
                    /\ alive' = TRUE
               ELSE /\ timerPending' = timerPending
                    /\ tx' = <<>>
                    /\ op' = Operation("Init", "abort", transportMgr)
                    /\ alive' = FALSE

\* Mutant of CancelExpiryTimer: the timer is left pending.
CancelExpiryTimer_Never(systemLayer, pending) ==
    pending

\* SecureSessionMgr::CancelExpiryTimer: the number of pending expiry timers
\* after it; the timer is cancelled through the system layer, if there is
\* one.
CancelExpiryTimer(systemLayer, pending) ==
    IF systemLayer # NULL THEN 0 ELSE pending

\* SecureSessionMgr::Shutdown, CancelExpiryTimer included.
Shutdown ==
    /\ alive
    /\ timerPending' = CancelExpiryTimer(mSystemLayer, timerPending)
    /\ mState' = "kNotReady"
    /\ mSystemLayer' = NULL
    /\ mTransportMgr' = NULL
    /\ mCB' = NULL
    /\ op' = Operation("Shutdown", "void", 0)
    /\ cbs' = <<>>
    /\ tx' = <<>>
    /\ UNCHANGED <<mPeerConnections, mUnauthenticatedSessions, mGlobalCounter,
                   now, alive>>

\* SetDelegate: registers (or clears) the upward delegate.
SetDelegate(cb) ==
    /\ alive
    /\ mCB' = cb
    /\ op' = Operation("SetDelegate", "void", 0)
    /\ cbs' = <<>>
    /\ tx' = <<>>
    /\ UNCHANGED <<mState, mSystemLayer, mTransportMgr, mPeerConnections,
                   mUnauthenticatedSessions, mGlobalCounter, timerPending,
                   now, alive>>

\* ExpiryTimerCallback: the one-shot timer fires and is scheduled again.  The
\* sweep of inactive sessions is compiled out (CHIP_CONFIG_SESSION_REKEYING).
ExpiryTimerCallback(timerOk) ==
    /\ alive
    /\ timerPending > 0
    /\ IF timerOk
       THEN /\ timerPending' = timerPending
            /\ alive' = TRUE
            /\ op' = Operation("ExpiryTimerCallback", "void", 0)
       ELSE /\ timerPending' = timerPending - 1
            /\ alive' = FALSE
            /\ op' = Operation("ExpiryTimerCallback", "abort", 0)
    /\ cbs' = <<>>
    /\ tx' = <<>>
    /\ UNCHANGED <<mState, mSystemLayer, mTransportMgr, mCB, mPeerConnections,
                   mUnauthenticatedSessions, mGlobalCounter, now>>

\* The monotonic clock advances.
Tick ==
    /\ alive
    /\ now < MaxTime
    /\ now' = now + 1
    /\ op' = Operation("Tick", "void", 0)
    /\ cbs' = <<>>
    /\ tx' = <<>>
    /\ UNCHANGED <<mState, mSystemLayer, mTransportMgr, mCB, mPeerConnections,
                   mUnauthenticatedSessions, mGlobalCounter, timerPending, alive>>

\* ------------------------------------------------------------------ expiry
\* HandleConnectionExpired for each expired session in turn: the callbacks
\* and the transport calls it issues.  With no transport manager the call
\* of Disconnect dereferences a null pointer (see NullTransport).
HandleConnectionExpired(cb, transportMgr, expired) ==
    [cbs |-> ExpiredCallbacks(cb, expired),
     tx  |-> IF transportMgr = NULL THEN <<>> ELSE Disconnects(expired)]

NullTransport(expired) == expired # <<>> /\ mTransportMgr = NULL

\* The effect of an operation that expired `expired` and left table `c`.
\* A null transport manager makes HandleConnectionExpired undefined: the
\* process either crashes inside the first handler, after its callback and
\* before the slot is freed, or runs on with no Disconnect issued.
Expire(o, c, expired) ==
    LET h == HandleConnectionExpired(mCB, mTransportMgr, expired)
    IN  \/ /\ mPeerConnections' = c
           /\ cbs' = h.cbs
           /\ tx' = h.tx
           /\ op' = o
           /\ alive' = TRUE
        \/ /\ NullTransport(expired)
           /\ mPeerConnections' = mPeerConnections
           /\ cbs' = ExpiredCallbacks(mCB, <<expired[1]>>)
           /\ tx' = <<>>
           /\ op' = [o EXCEPT !.ret = "crash"]
           /\ alive' = FALSE

\* The effect of an operation whose loop does not end: it never returns.
Hang(o) ==
    /\ mPeerConnections' = mPeerConnections
    /\ cbs' = <<>>
    /\ tx' = <<>>
    /\ op' = o
    /\ alive' = FALSE

\* Mutant of ExpirePairingResult: the handle is resolved by its local
\* session id alone.
ExpirePairingResult_AnyNode(c, session) ==
    LET state == FirstIn({i \in Slots : c[i].used /\ c[i].lsid = session.lsid})
    IN  IF state # 0
        THEN [conns |-> MarkConnectionExpired(c, state), expired |-> <<c[state]>>]
        ELSE [conns |-> c, expired |-> <<>>]

\* SecureSessionMgr::ExpirePairing: the table it leaves and what it expired.
ExpirePairingResult(c, session) ==
    LET state == GetPeerConnectionState(c, session)
    IN  IF state # 0
        THEN [conns |-> MarkConnectionExpired(c, state), expired |-> <<c[state]>>]
        ELSE [conns |-> c, expired |-> <<>>]

ExpirePairing(session) ==
    LET r == ExpirePairingResult(mPeerConnections, session)
    IN  /\ alive
        /\ Expire(Operation("ExpirePairing", "void", session), r.conns, r.expired)
        /\ UNCHANGED <<mgrVars, mUnauthenticatedSessions, mGlobalCounter, now>>

\* The sessions of slots `hit` in table order.
InTableOrder(c, hit) ==
    LET at(k) == CHOOSE i \in hit : Cardinality({j \in hit : j < i}) = k - 1
    IN  [k \in 1..Cardinality(hit) |-> c[at(k)]]

\* Mutant of ExpireAllPairingsResult: the fabric test is missing.
ExpireAllPairingsResult_NodeOnly(c, peerNodeId, fabric) ==
    LET hit == {i \in Slots : c[i].used /\ c[i].node = peerNodeId}
    IN  [conns |-> [i \in Slots |-> IF i \in hit THEN FreeSlot ELSE c[i]],
         expired |-> InTableOrder(c, hit), terminated |-> TRUE,
         iterations |-> Cardinality(hit)]

\* SecureSessionMgr::ExpireAllPairings: the table it leaves and what it
\* expired, in the order of expiry.
ExpireAllPairingsResult(c, peerNodeId, fabric) ==
    ExpireAllPairingsLoop(c, peerNodeId, fabric,
                          FindPeerConnectionStateByNodeId(c, peerNodeId, 0), <<>>, 0)

ExpireAllPairings(peerNodeId, fabric) ==
    LET r == ExpireAllPairingsResult(mPeerConnections, peerNodeId, fabric)
    IN  /\ alive
        /\ IF r.terminated
           THEN Expire(Operation("ExpireAllPairings", "void",
                                 [node |-> peerNodeId, fabric |-> fabric]),
                       r.conns, r.expired)
           ELSE Hang(Operation("ExpireAllPairings", "hang",
                               [node |-> peerNodeId, fabric |-> fabric]))
        /\ UNCHANGED <<mgrVars, mUnauthenticatedSessions, mGlobalCounter, now>>

\* Mutant of ExpireAllPairingsForFabricResult: an `if` for the `while`.
ExpireAllPairingsForFabricResult_Once(c, fabric) ==
    LET state == FindPeerConnectionStateByFabric(c, fabric)
    IN  IF state # 0
        THEN [conns |-> MarkConnectionExpired(c, state), expired |-> <<c[state]>>,
              terminated |-> TRUE, iterations |-> 1]
        ELSE [conns |-> c, expired |-> <<>>, terminated |-> TRUE, iterations |-> 0]

\* Mutant of ExpireAllPairingsForFabricResult: the sessions of every fabric.
ExpireAllPairingsForFabricResult_AllFabrics(c, fabric) ==
    LET hit == {i \in Slots : c[i].used}
    IN  IF FindPeerConnectionStateByFabric(c, fabric) = 0
        THEN [conns |-> c, expired |-> <<>>, terminated |-> TRUE, iterations |-> 0]
        ELSE [conns |-> [i \in Slots |-> FreeSlot], expired |-> InTableOrder(c, hit),
              terminated |-> TRUE, iterations |-> Cardinality(hit)]

\* SecureSessionMgr::ExpireAllPairingsForFabric: the table it leaves and
\* what it expired, in the order of expiry.
ExpireAllPairingsForFabricResult(c, fabric) ==
    ExpireAllPairingsForFabricLoop(c, fabric,
                                   FindPeerConnectionStateByFabric(c, fabric), <<>>, 0)

ExpireAllPairingsForFabric(fabric) ==
    LET r == ExpireAllPairingsForFabricResult(mPeerConnections, fabric)
    IN  /\ alive
        /\ IF r.terminated
           THEN Expire(Operation("ExpireAllPairingsForFabric", "void", fabric),
                       r.conns, r.expired)
           ELSE Hang(Operation("ExpireAllPairingsForFabric", "hang", fabric))
        /\ UNCHANGED <<mgrVars, mUnauthenticatedSessions, mGlobalCounter, now>>

\* ----------------------------------------------------------------- pairing
HasValue(peerAddr) == peerAddr.type # "Missing"

\* Mutant of PeerAddrBranch: every UDP and TCP address is rejected.
PeerAddrBranch_RejectIp(peerAddr) ==
    IF HasValue(peerAddr) /\ peerAddr.type = "kBle" THEN "set"
    ELSE IF HasValue(peerAddr) /\ (peerAddr.type = "kTcp" \/ peerAddr.type = "kUdp")
    THEN "reject"
    ELSE "keep"

\* The peer-address branches of NewPairing: "set" stores the address,
\* "reject" returns CHIP_ERROR_INVALID_ARGUMENT, "keep" leaves the default.
PeerAddrBranch(peerAddr) ==
    IF HasValue(peerAddr) /\ peerAddr.ip # 0 THEN "set"
    ELSE IF HasValue(peerAddr) /\ peerAddr.type = "kBle" THEN "set"
    ELSE IF HasValue(peerAddr) /\ (peerAddr.type = "kTcp" \/ peerAddr.type = "kUdp")
    THEN "reject"
    ELSE "keep"

\* Mutant of SetFabricIndex: the fabric index is left at its default.
SetFabricIndex_Default(c, i, fabric) == c

\* state->SetFabricIndex(fabric) on slot i.
SetFabricIndex(c, i, fabric) ==
    [c EXCEPT ![i].fabric = fabric]

\* SecureSessionMgr::NewPairing after the expiry of `state` (0: none found):
\* the table it leaves, the value it returns and the callbacks that follow
\* the expiry handler's.
NewPairingResult(c1, cb, peerAddr, peerNodeId, pairing, fabric, t, evict) ==
    LET cr == CreateNewPeerConnectionState(c1, peerNodeId, PeerSessionIdOf(pairing),
                                           pairing.localSessionId, t, evict)
        i  == cr.idx
        c2 == SetFabricIndex(cr.conns, i, fabric)
        c3 == IF PeerAddrBranch(peerAddr) = "set"
              THEN [c2 EXCEPT ![i].addr = peerAddr] ELSE c2
        c4 == [c3 EXCEPT ![i].keyed = TRUE]
        c5 == IF cb # NULL
              THEN [c4 EXCEPT ![i].synced = TRUE, ![i].maxSeen = PeerCounterOf(pairing)]
              ELSE c4
        ev == ExpiredCallbacks(cb, cr.evicted)
    IN  IF i = 0
        THEN [conns |-> c1, ret |-> "CHIP_ERROR_NO_MEMORY", cbs |-> <<>>]
        ELSE IF PeerAddrBranch(peerAddr) = "reject"
        THEN [conns |-> c2, ret |-> "CHIP_ERROR_INVALID_ARGUMENT", cbs |-> ev]
        ELSE IF ~pairing.deriveOk
        THEN [conns |-> c3, ret |-> "DeriveSecureSessionError", cbs |-> ev]
        ELSE [conns |-> c5, ret |-> "CHIP_NO_ERROR",
              cbs |-> IF cb = NULL THEN ev
                      ELSE Append(ev, [cb |-> "OnNewConnection",
                                       session |-> SessionHandleOf(c5[i])])]

NewPairing(peerAddr, peerNodeId, pairing, fabric, evict) ==
    LET state == FindPeerConnectionStateByLocalKey(mPeerConnections, peerNodeId,
                                                   pairing.localSessionId)
        expired == IF state # 0 THEN <<mPeerConnections[state]>> ELSE <<>>
        c1 == IF state # 0 THEN MarkConnectionExpired(mPeerConnections, state)
              ELSE mPeerConnections
        h  == HandleConnectionExpired(mCB, mTransportMgr, expired)
        r  == NewPairingResult(c1, mCB, peerAddr, peerNodeId, pairing, fabric, now, evict)
        o  == Operation("NewPairing", r.ret,
                        [peerAddr |-> peerAddr, peerNodeId |-> peerNodeId,
                         pairing |-> pairing, fabric |-> fabric])
    IN  /\ alive
        /\ \/ /\ mPeerConnections' = r.conns
              /\ cbs' = h.cbs \o r.cbs
              /\ tx' = h.tx
              /\ op' = o
              /\ alive' = TRUE
           \/ /\ NullTransport(expired)
              /\ mPeerConnections' = mPeerConnections
              /\ cbs' = h.cbs
              /\ tx' = <<>>
              /\ op' = [o EXCEPT !.ret = "crash"]
              /\ alive' = FALSE
        /\ UNCHANGED <<mgrVars, mUnauthenticatedSessions, mGlobalCounter, now>>

\* ---------------------------------------------------------------- outbound
\* Handles of the unauthenticated sessions in the table: such a handle
\* refers to its entry.
UnauthenticatedHandles ==
    {[secure |-> FALSE, node |-> 0, lsid |-> 0, slot |-> i] :
        i \in {j \in UnauthSlots : mUnauthenticatedSessions[j].used}}

SessionHandles == Handles \cup UnauthenticatedHandles

\* GetSendCounterForPacket: the global counter for a payload that is not to
\* be encrypted, the session's own send counter otherwise.
GetSendCounterForPacket(payloadHeader) ==
    IF ~payloadHeader.needsEncryption THEN "global" ELSE "session"

\* Mutant of ReadThenAdvance: the counter is advanced before it is read.
AdvanceThenRead(value) ==
    [wire |-> value + 1, next |-> value + 1]

\* The message counter of a packet: counter.Value() goes into the packet
\* header and counter.Advance() leaves the next value in the counter.
ReadThenAdvance(value) ==
    [wire |-> value, next |-> value + 1]

\* SecureSessionMgr::PrepareMessage.  encodeOk: the codec encodes and
\* encrypts (it reads and advances the counter as its last step); headerOk:
\* the packet header fits in front of the data.  op.arg holds the handle,
\* the payload header and the counter put on the wire.
PrepareMessage(session, payloadHeader, encodeOk, headerOk) ==
    LET state == GetPeerConnectionState(mPeerConnections, session)
        which == GetSendCounterForPacket(payloadHeader)
        value == IF ~session.secure THEN mUnauthenticatedSessions[session.slot].sendCtr
                 ELSE IF which = "global" THEN mGlobalCounter
                 ELSE mPeerConnections[state].sendCtr
        ra    == ReadThenAdvance(value)
        o(ret, v) == Operation("PrepareMessage", ret,
                               [session |-> session, payloadHeader |-> payloadHeader,
                                counter |-> v])
    IN  /\ alive
        /\ cbs' = <<>>
        /\ tx' = <<>>
        /\ UNCHANGED <<mgrVars, now, alive>>
        /\ IF session.secure /\ state = 0
           THEN /\ op' = o("CHIP_ERROR_NOT_CONNECTED", 0)
                /\ UNCHANGED <<mPeerConnections, mUnauthenticatedSessions, mGlobalCounter>>
           ELSE IF ~encodeOk
           THEN /\ op' = o("EncodeError", 0)
                /\ UNCHANGED <<mPeerConnections, mUnauthenticatedSessions, mGlobalCounter>>
           ELSE /\ value < MaxCounter
                /\ op' = o(IF headerOk THEN "CHIP_NO_ERROR" ELSE "EncodeError", ra.wire)
                /\ IF ~session.secure
                   THEN /\ mUnauthenticatedSessions' =
                              [mUnauthenticatedSessions EXCEPT ![session.slot].sendCtr = ra.next]
                        /\ UNCHANGED <<mPeerConnections, mGlobalCounter>>
                   ELSE IF which = "global"
                   THEN /\ mGlobalCounter' = ra.next
                        /\ UNCHANGED <<mPeerConnections, mUnauthenticatedSessions>>
                   ELSE /\ mPeerConnections' =
                              [mPeerConnections EXCEPT ![state].sendCtr = ra.next]
                        /\ UNCHANGED <<mUnauthenticatedSessions, mGlobalCounter>>

\* Mutant of SendPreparedCheck: the session is looked up before the buffer
\* is tested.
SendPreparedCheck_LookupFirst(state, preparedMessage, secure, found) ==
    IF state # "kInitialized" THEN "CHIP_ERROR_INCORRECT_STATE"
    ELSE IF secure /\ ~found THEN "CHIP_ERROR_NOT_CONNECTED"
    ELSE IF preparedMessage = "null" THEN "CHIP_ERROR_INVALID_ARGUMENT"
    ELSE "CHIP_NO_ERROR"

\* The checks of SendPreparedMessage that precede MarkConnectionActive:
\* the manager state, the buffer, and for a secure handle the session.
SendPreparedCheck(state, preparedMessage, secure, found) ==
    IF state # "kInitialized" THEN "CHIP_ERROR_INCORRECT_STATE"
    ELSE IF preparedMessage = "null" THEN "CHIP_ERROR_INVALID_ARGUMENT"
    ELSE IF secure /\ ~found THEN "CHIP_ERROR_NOT_CONNECTED"
    ELSE "CHIP_NO_ERROR"

\* SecureSessionMgr::SendPreparedMessage.  sendOk is the transport's answer.
SendPreparedMessage(session, preparedMessage, sendOk) ==
    LET state == GetPeerConnectionState(mPeerConnections, session)
        o(ret) == Operation("SendPreparedMessage", ret,
                            [session |-> session, preparedMessage |-> preparedMessage])
        destination == IF session.secure THEN mPeerConnections[state].addr
                       ELSE mUnauthenticatedSessions[session.slot].addr
        check == SendPreparedCheck(mState, preparedMessage, session.secure, state # 0)
    IN  /\ alive
        /\ cbs' = <<>>
        /\ UNCHANGED <<mgrVars, mGlobalCounter, now, alive>>
        /\ IF check # "CHIP_NO_ERROR"
           THEN /\ op' = o(check)
                /\ tx' = <<>>
                /\ UNCHANGED <<mPeerConnections, mUnauthenticatedSessions>>
           ELSE /\ IF session.secure
                   THEN /\ mPeerConnections' = MarkConnectionActive(mPeerConnections, state, now)
                        /\ UNCHANGED mUnauthenticatedSessions
                   ELSE /\ mUnauthenticatedSessions' =
                              MarkSessionActive(mUnauthenticatedSessions, session.slot, now)
                        /\ UNCHANGED mPeerConnections
                /\ IF preparedMessage = "uncloneable"
                   THEN op' = o("CHIP_ERROR_INVALID_ARGUMENT") /\ tx' = <<>>
                   ELSE IF preparedMessage = "chained"
                   THEN op' = o("CHIP_ERROR_INVALID_MESSAGE_LENGTH") /\ tx' = <<>>
                   ELSE IF mTransportMgr # NULL
                   THEN /\ tx' = <<[call |-> "SendMessage", addr |-> destination]>>
                        /\ op' = o(IF sendOk THEN "CHIP_NO_ERROR" ELSE "SendMessageError")
                   ELSE op' = o("CHIP_ERROR_INCORRECT_STATE") /\ tx' = <<>>

\* ----------------------------------------------------------- peer counter
\* The peer counter (replay window) of a session record r: synced, maxSeen
\* and window, the counters below maxSeen and inside the window that were
\* committed.
Verify(r, counter) ==
    IF ~r.synced THEN "CHIP_NO_ERROR"
    ELSE IF counter > r.maxSeen THEN "CHIP_NO_ERROR"
    ELSE IF counter = r.maxSeen THEN "CHIP_ERROR_DUPLICATE_MESSAGE_RECEIVED"
    ELSE IF counter < r.maxSeen - WindowSize
    THEN "CHIP_ERROR_MESSAGE_COUNTER_OUT_OF_WINDOW"
    ELSE IF counter \in r.window THEN "CHIP_ERROR_DUPLICATE_MESSAGE_RECEIVED"
    ELSE "CHIP_NO_ERROR"

\* set_counter: forces max_seen, clears the window, synchronized.
SetCounter(r, counter) ==
    [r EXCEPT !.synced = TRUE, !.maxSeen = counter, !.window = {}]

\* verify_or_trust_first: adopts the first counter, afterwards verify.
VerifyOrTrustFirst(r, counter) ==
    IF r.synced THEN [r |-> r, err |-> Verify(r, counter)]
    ELSE [r |-> SetCounter(r, counter), err |-> "CHIP_NO_ERROR"]

\* commit: a counter above max_seen becomes max_seen and the window shifts;
\* a counter inside the window gets its bit set.
Commit(r, counter) ==
    IF counter > r.maxSeen
    THEN [r EXCEPT !.maxSeen = counter,
                   !.window = {x \in r.window \cup {r.maxSeen} :
                                  x >= counter - WindowSize}]
    ELSE IF counter = r.maxSeen THEN r
    ELSE [r EXCEPT !.window = r.window \cup {counter}]

\* ----------------------------------------------------------------- inbound
PeerCounters == 0..MaxPeerCounter

\* What the manager looks at in an inbound datagram: whether the packet
\* header decodes, its encrypted-message and control-message flags, session
\* id and message counter, whether the rest decodes (decrypts, for an
\* encrypted one), and the needs-ack flag of its payload header.
Datagram(headerOk, encrypted, control, sessionId, counter, decodeOk, needsAck) ==
    [headerOk |-> headerOk, encrypted |-> encrypted, control |-> control,
     sessionId |-> sessionId, counter |-> counter, decodeOk |-> decodeOk,
     needsAck |-> needsAck]

Undecodable == Datagram(FALSE, FALSE, FALSE, 0, 0, FALSE, FALSE)

PlainDatagrams ==
    {Datagram(TRUE, FALSE, FALSE, 0, c, ok, FALSE) : c \in PeerCounters, ok \in BOOLEAN}

\* Encrypted datagrams: data messages of session id 1 with every counter,
\* control messages of session id 1 (their counter is not looked at), and a
\* data message of session id 2.
EncryptedDatagrams ==
    {Datagram(TRUE, TRUE, FALSE, 1, c, ok, ack) :
        c \in PeerCounters, ok \in BOOLEAN, ack \in BOOLEAN}
    \cup {Datagram(TRUE, TRUE, TRUE, 1, 0, ok, ack) : ok \in BOOLEAN, ack \in BOOLEAN}
    \cup {Datagram(TRUE, TRUE, FALSE, 2, 0, TRUE, FALSE)}

\* The counter-sync service handed to Init; Init sets it and Shutdown clears
\* it together with the transport manager.
mMessageCounterManager ==
    IF mTransportMgr = NULL THEN NULL ELSE "mcm"

\* find_by_session_id: the first session with this local session id.
FindPeerConnectionStateBySessionId(c, sessionId) ==
    FirstIn({i \in Slots : c[i].used /\ c[i].lsid = sessionId})

\* find_or_allocate: the entry of the address, else a free entry, else on a
\* full table the least recently active entry (`evict`) or none.  Yields the
\* table and the entry (0 when none).
FindOrAllocateEntry(u, peerAddress, evict) ==
    LET hit  == {i \in UnauthSlots : u[i].used /\ u[i].addr = peerAddress}
        free == {i \in UnauthSlots : ~u[i].used}
        lru  == Min({i \in UnauthSlots : \A j \in UnauthSlots : u[i].last <= u[j].last})
        new  == [FreeUnauthenticated EXCEPT !.used = TRUE, !.addr = peerAddress]
    IN  IF hit # {} THEN [table |-> u, idx |-> Min(hit)]
        ELSE IF free # {} THEN [table |-> [u EXCEPT ![Min(free)] = new], idx |-> Min(free)]
        ELSE IF evict THEN [table |-> [u EXCEPT ![lru] = new], idx |-> lru]
        ELSE [table |-> u, idx |-> 0]

UnauthenticatedSessionHandle(i) ==
    [secure |-> FALSE, node |-> 0, lsid |-> 0, slot |-> i]

Delivery(session, peerAddress, isDuplicate) ==
    [cb |-> "OnMessageReceived", session |-> session, addr |-> peerAddress,
     isDuplicate |-> isDuplicate]

ReceiveError(err, peerAddress) ==
    [cb |-> "OnReceiveError", err |-> err, addr |-> peerAddress]

\* Mutant of PromoteDuplicate: a duplicate stays an error.
PromoteDuplicate_Keep(err) ==
    [isDuplicate |-> err = "CHIP_ERROR_DUPLICATE_MESSAGE_RECEIVED", err |-> err]

\* A duplicate-message error becomes the is_duplicate flag and no error.
PromoteDuplicate(err) ==
    [isDuplicate |-> err = "CHIP_ERROR_DUPLICATE_MESSAGE_RECEIVED",
     err |-> IF err = "CHIP_ERROR_DUPLICATE_MESSAGE_RECEIVED" THEN "CHIP_NO_ERROR" ELSE err]

\* SecureSessionMgr::MessageDispatch: the table it leaves, its callbacks,
\* and whether VerifyOrDie aborted it.
MessageDispatch(u, cb, d, peerAddress, t, evict) ==
    LET fa  == FindOrAllocateEntry(u, peerAddress, evict)
        i   == fa.idx
        v   == VerifyOrTrustFirst(fa.table[i], d.counter)
        pd  == PromoteDuplicate(v.err)
        dup == pd.isDuplicate
        u1  == [fa.table EXCEPT ![i] = v.r]
        u2  == MarkSessionActive(u1, i, t)
        u3  == [u2 EXCEPT ![i] = Commit(u2[i], d.counter)]
    IN  IF i = 0 THEN [table |-> u, cbs |-> <<>>, abort |-> FALSE]
        ELSE IF pd.err # "CHIP_NO_ERROR"
        THEN [table |-> u1, cbs |-> <<>>, abort |-> TRUE]
        ELSE IF ~d.decodeOk THEN [table |-> u2, cbs |-> <<>>, abort |-> FALSE]
        ELSE [table |-> u3, abort |-> FALSE,
              cbs |-> IF cb = NULL THEN <<>>
                      ELSE <<Delivery(UnauthenticatedSessionHandle(i), peerAddress, dup)>>]

\* Mutant of DropDuplicate: no duplicate is dropped.
DropDuplicate_Never(isDuplicate, needsAck) ==
    FALSE

\* A duplicate whose payload header does not request an ack is dropped
\* after decoding, before the commit.
DropDuplicate(isDuplicate, needsAck) ==
    isDuplicate /\ ~needsAck

\* Mutant of CounterChecked: the counter of every datagram is checked.
CounterChecked_Always(control) ==
    TRUE

\* Mutant of CounterChecked: the counter of no datagram is checked.
CounterChecked_Never(control) ==
    FALSE

\* The peer counter is looked at (synchronisation, verify, commit) for
\* datagrams without the control-message flag only.
CounterChecked(control) ==
    ~control

\* Mutant of UpdatePeerAddress: the recorded address stays.
UpdatePeerAddress_Keep(recorded, peerAddress) ==
    recorded

\* The peer address recorded for the session after a datagram from
\* peerAddress was accepted.
UpdatePeerAddress(recorded, peerAddress) ==
    IF recorded # peerAddress THEN peerAddress ELSE recorded

\* Mutant of ExitCallbacks: the error is reported whether or not a delegate
\* is registered.
ExitCallbacks_NoDelegateCheck(cb, err, peerAddress) ==
    IF err # "CHIP_NO_ERROR" THEN <<ReceiveError(err, peerAddress)>>
    ELSE <<>>

\* Mutant of ExitCallbacks: the exit label reports whatever err holds.
ExitCallbacks_Always(cb, err, peerAddress) ==
    IF cb # NULL THEN <<ReceiveError(err, peerAddress)>>
    ELSE <<>>

\* The `exit` label of SecureMessageDispatch: an error is reported upward
\* when a delegate is registered.
ExitCallbacks(cb, err, peerAddress) ==
    IF err # "CHIP_NO_ERROR" /\ cb # NULL THEN <<ReceiveError(err, peerAddress)>>
    ELSE <<>>

\* SecureSessionMgr::SecureMessageDispatch: the table it leaves, its
\* callbacks, and whether it handed the datagram to the counter-sync
\* service.
SecureMessageDispatch(c, cb, d, peerAddress, t) ==
    LET state == FindPeerConnectionStateBySessionId(c, d.sessionId)
        chk   == CounterChecked(d.control)
        verr  == IF ~chk THEN "CHIP_NO_ERROR" ELSE Verify(c[state], d.counter)
        dup   == verr = "CHIP_ERROR_DUPLICATE_MESSAGE_RECEIVED"
        c1    == MarkConnectionActive(c, state, t)
        c2    == IF ~chk THEN c1
                 ELSE [c1 EXCEPT ![state] = Commit(c1[state], d.counter)]
        c3    == [c2 EXCEPT ![state].addr = UpdatePeerAddress(@, peerAddress)]
        r(conns, calls, queued) == [conns |-> conns, cbs |-> calls, queued |-> queued]
    IN  IF state = 0
        THEN r(c, ExitCallbacks(cb, "CHIP_ERROR_KEY_NOT_FOUND_FROM_PEER", peerAddress), FALSE)
        ELSE IF chk /\ ~c[state].synced THEN r(c, <<>>, TRUE)
        ELSE IF verr # "CHIP_NO_ERROR" /\ ~dup
        THEN r(c, ExitCallbacks(cb, verr, peerAddress), FALSE)
        ELSE IF ~d.decodeOk THEN r(c1, ExitCallbacks(cb, "CHIP_NO_ERROR", peerAddress), FALSE)
        ELSE IF DropDuplicate(dup, d.needsAck)
        THEN r(c1, ExitCallbacks(cb, "CHIP_NO_ERROR", peerAddress), FALSE)
        ELSE r(c3, (IF cb = NULL THEN <<>>
                    ELSE <<Delivery(SessionHandleOf(c3[state]), peerAddress, dup)>>)
                   \o ExitCallbacks(cb, "CHIP_NO_ERROR", peerAddress), FALSE)

\* A full unauthenticated table is the only case in which find_or_allocate
\* looks at `evict`.
UnauthEvictChoices ==
    IF \A i \in UnauthSlots : mUnauthenticatedSessions[i].used THEN BOOLEAN ELSE {FALSE}

\* SecureSessionMgr::OnMessageReceived: the transport hands up a datagram
\* from peerAddress.  With no counter-sync service the hand-off of a
\* datagram to it dereferences a null pointer: the process crashes or runs
\* on with nothing queued.
OnMessageReceived(peerAddress, d, evict) ==
    LET o(ret) == Operation("OnMessageReceived", ret,
                            [peerAddress |-> peerAddress, datagram |-> d])
        m == MessageDispatch(mUnauthenticatedSessions, mCB, d, peerAddress, now, evict)
        s == SecureMessageDispatch(mPeerConnections, mCB, d, peerAddress, now)
        quiet == /\ cbs' = <<>>
                 /\ tx' = <<>>
    IN  /\ alive
        /\ UNCHANGED <<mgrVars, mGlobalCounter, now>>
        /\ IF ~d.headerOk
           THEN /\ op' = o("void")
                /\ quiet
                /\ UNCHANGED <<mPeerConnections, mUnauthenticatedSessions, alive>>
           ELSE IF ~d.encrypted
           THEN /\ mUnauthenticatedSessions' = m.table
                /\ cbs' = m.cbs
                /\ tx' = <<>>
                /\ op' = o(IF m.abort THEN "abort" ELSE "void")
                /\ alive' = ~m.abort
                /\ UNCHANGED mPeerConnections
           ELSE IF ~s.queued
           THEN /\ mPeerConnections' = s.conns
                /\ cbs' = s.cbs
                /\ tx' = <<>>
                /\ op' = o("void")
                /\ UNCHANGED <<mUnauthenticatedSessions, alive>>
           ELSE /\ UNCHANGED <<mPeerConnections, mUnauthenticatedSessions>>
                /\ cbs' = <<>>
                /\ IF mMessageCounterManager # NULL
                   THEN /\ tx' = <<[call |-> "QueueReceivedMessageAndStartSync",
                                     addr |-> peerAddress]>>
                        /\ op' = o("void")
                        /\ alive' = TRUE
                   ELSE /\ tx' = <<>>
                        /\ \/ op' = o("crash") /\ alive' = FALSE
                           \/ op' = o("void") /\ alive' = TRUE

\* The counter-sync service completes a synchronisation: set_counter on the
\* peer counter of the session in slot i.
SyncSuccess(i, counter) ==
    /\ alive
    /\ mMessageCounterManager # NULL
    /\ mPeerConnections[i].used
    /\ ~mPeerConnections[i].synced
    /\ mPeerConnections' = [mPeerConnections EXCEPT ![i] = SetCounter(@, counter)]
    /\ op' = Operation("SyncSuccess", "void", [slot |-> i, counter |-> counter])
    /\ cbs' = <<>>
    /\ tx' = <<>>
    /\ UNCHANGED <<mgrVars, mUnauthenticatedSessions, mGlobalCounter, now, alive>>

\* ------------------------------------------------------------ specification
\* A full table is the only case in which create looks at `evict`.
EvictChoices ==
    IF \A i \in Slots : mPeerConnections[i].used THEN BOOLEAN ELSE {FALSE}

Lifecycle ==
    \/ \E tm \in {NULL, "tm"}, timerOk \in BOOLEAN : MgrInit("sys", tm, timerOk)
    \/ Shutdown
    \/ \E cb \in {NULL, "cb"} : SetDelegate(cb)
    \/ \E timerOk \in BOOLEAN : ExpiryTimerCallback(timerOk)

Expiry ==
    \/ \E h \in Handles : ExpirePairing(h)
    \/ \E n \in NodeIds, f \in Fabrics : ExpireAllPairings(n, f)
    \/ \E f \in Fabrics : ExpireAllPairingsForFabric(f)

\* The pairings of Spec: peer node 1 pairs on local session ids 1 and 2,
\* peer node 2 on local session id 1, each for either fabric; peer node n is
\* at address Udp(n).
PairingRequests ==
    {r \in [node : NodeIds, lsid : LocalIds, fabric : Fabrics] : r.node = 1 \/ r.lsid = 1}

\* Spec: the lifecycle and the session table under pairing and expiry;
\* pairings succeed.
Next ==
    \/ Lifecycle
    \/ \E r \in PairingRequests, evict \in EvictChoices :
          NewPairing(Udp(r.node), r.node,
                     [localSessionId |-> r.lsid, deriveOk |-> TRUE], r.fabric, evict)
    \/ Expiry

Spec == Init /\ [][Next]_vars

\* SpecAddr: pairing with every kind of peer address and with failing key
\* derivation, for one peer node, one local session id and one fabric.
NextAddr ==
    \/ Lifecycle
    \/ \E a \in PeerAddrInputs, ok \in BOOLEAN, evict \in EvictChoices :
          NewPairing(a, 1, [localSessionId |-> 1, deriveOk |-> ok], 1, evict)
    \/ Expiry

SpecAddr == Init /\ [][NextAddr]_vars

\* SpecSend: the outbound path and the clock on the sessions of one local
\* session id, with pairings that are rejected or fail as well.
NextSend ==
    \/ Lifecycle
    \/ Tick
    \/ \E a \in {Udp(0), Udp(1)}, ok \in BOOLEAN, evict \in EvictChoices :
          NewPairing(a, 1, [localSessionId |-> 1, deriveOk |-> ok], 1, evict)
    \/ Expiry
    \/ \E h \in SessionHandles, ph \in {x \in PayloadHeaders : ~x.isControl},
          e \in BOOLEAN, k \in BOOLEAN :
          PrepareMessage(h, ph, e, k)
    \/ \E h \in SessionHandles, m \in PreparedMessages, ok \in BOOLEAN :
          SendPreparedMessage(h, m, ok)

SpecSend == Init /\ [][NextSend]_vars

\* SpecCounter: the send counters.  One session (peer node 1, local session
\* id 1) is paired and expired, a plaintext datagram from Udp(1) opens an
\* unauthenticated session, and messages are prepared on every handle.
NextCounter ==
    \/ Lifecycle
    \/ \E evict \in EvictChoices :
          NewPairing(Udp(1), 1, [localSessionId |-> 1, deriveOk |-> TRUE], 1, evict)
    \/ ExpirePairing([secure |-> TRUE, node |-> 1, lsid |-> 1, slot |-> 0])
    \/ OnMessageReceived(Udp(1), Datagram(TRUE, FALSE, FALSE, 0, 0, TRUE, FALSE), FALSE)
    \/ \E h \in SessionHandles, ph \in PayloadHeaders, encodeOk \in BOOLEAN,
          headerOk \in BOOLEAN :
          PrepareMessage(h, ph, encodeOk, headerOk)

SpecCounter == Init /\ [][NextCounter]_vars

\* SpecRecv: encrypted datagrams for the session of local session id 1,
\* paired with node 1 at Udp(1), arriving from two addresses, with the
\* clock, the counter-sync service and sends on the session.
NextRecv ==
    \/ Lifecycle
    \/ Tick
    \/ \E evict \in EvictChoices :
          NewPairing(Udp(1), 1, [localSessionId |-> 1, deriveOk |-> TRUE], 1, evict)
    \/ \E a \in {Udp(1), Udp(2)}, d \in {Undecodable} \cup EncryptedDatagrams :
          OnMessageReceived(a, d, FALSE)
    \/ \E i \in Slots, c \in PeerCounters : SyncSuccess(i, c)
    \/ \E h \in SessionHandles : SendPreparedMessage(h, "single", TRUE)

SpecRecv == Init /\ [][NextRecv]_vars

\* SpecPlain: plaintext datagrams from two addresses on the unauthenticated
\* session table.
NextPlain ==
    \/ Lifecycle
    \/ \E a \in {Udp(1), Udp(2)}, d \in {Undecodable} \cup PlainDatagrams,
          evict \in UnauthEvictChoices :
          OnMessageReceived(a, d, evict)

SpecPlain == Init /\ [][NextPlain]_vars

\* ================================================================== claims
UsedSlots(c) == {i \in Slots : c[i].used}
Removed == {i \in Slots : mPeerConnections[i].used /\ ~mPeerConnections'[i].used}
CallbacksNamed(q, name) == {k \in 1..Len(q) : q[k].cb = name}
CallsNamed(q, name) == {k \in 1..Len(q) : q[k].call = name}
ApiErrors == {"CHIP_ERROR_INCORRECT_STATE", "CHIP_ERROR_INVALID_ARGUMENT",
              "CHIP_ERROR_NOT_CONNECTED", "CHIP_ERROR_NO_MEMORY",
              "CHIP_ERROR_INVALID_MESSAGE_LENGTH", "DeriveSecureSessionError",
              "EncodeError", "SendMessageError"}

\* C1: Init from NotReady with a non-null transport manager makes the manager
\* Initialized, registers it with the transport (SetSecureSessionMgr) and
\* schedules one expiry timer; Init while Initialized returns IncorrectState
\* and Init with a null transport manager returns InvalidArgument, and both
\* leave the state and the pending timers as they were.  (A StartTimer that
\* fails aborts the process: the fatal condition of ScheduleExpiryTimer.)
C1_InitContract ==
    [][op'.name = "Init" =>
        /\ (mState = "kNotReady" /\ op'.arg # NULL /\ alive') =>
              /\ op'.ret = "CHIP_NO_ERROR"
              /\ mState' = "kInitialized"
              /\ CallsNamed(tx', "SetSecureSessionMgr") # {}
              /\ timerPending' = timerPending + 1
        /\ mState = "kInitialized" =>
              /\ op'.ret = "CHIP_ERROR_INCORRECT_STATE"
              /\ UNCHANGED <<mState, timerPending>>
        /\ (mState = "kNotReady" /\ op'.arg = NULL) =>
              /\ op'.ret = "CHIP_ERROR_INVALID_ARGUMENT"
              /\ UNCHANGED <<mState, timerPending>>
        /\ ~alive' => op'.ret = "abort"
    ]_vars

\* An Init refused with IncorrectState on a manager that an earlier Init
\* made Initialized, with its one timer still pending.
C1_Witness ==
    /\ op.name = "Init"
    /\ op.ret = "CHIP_ERROR_INCORRECT_STATE"
    /\ mState = "kInitialized"
    /\ timerPending = 1

\* C2: an operation other than Init and Shutdown that is invoked while the
\* manager is NotReady changes no session table entry and no counter and
\* issues no upward callback and no transport call.
C2_NotReadyNoEffect ==
    [][(mState = "kNotReady" /\
        op'.name \in {"PrepareMessage", "SendPreparedMessage", "NewPairing",
                      "ExpirePairing", "ExpireAllPairings",
                      "ExpireAllPairingsForFabric"}) =>
            /\ UNCHANGED <<mPeerConnections, mUnauthenticatedSessions, mGlobalCounter>>
            /\ cbs' = <<>>
            /\ tx' = <<>>
    ]_vars

\* C3: an API method (Init, PrepareMessage, SendPreparedMessage, NewPairing)
\* that returns an error has changed neither table, no counter, no last
\* activity time and not the manager state.
C3_ErrorNoStateChange ==
    [][(op'.name \in {"Init", "PrepareMessage", "SendPreparedMessage", "NewPairing"}
        /\ op'.ret \in ApiErrors) =>
            UNCHANGED <<mPeerConnections, mUnauthenticatedSessions,
                        mGlobalCounter, mState>>
    ]_vars

\* C4: the authenticated table never holds two sessions with the same local
\* session id.
C4_OneSessionPerLocalId ==
    \A i, j \in UsedSlots(mPeerConnections) :
        mPeerConnections[i].lsid = mPeerConnections[j].lsid => i = j

\* The session a successful NewPairing(a, n, pairing, f) leaves resolvable
\* under the handle (n, pairing.localSessionId), and the callbacks it made.
NewPairingInstalls(n, pairing, f) ==
    LET i == GetPeerConnectionState(mPeerConnections',
                                    [node |-> n, lsid |-> pairing.localSessionId])
    IN  /\ i # 0
        /\ mPeerConnections'[i].node = n
        /\ mPeerConnections'[i].lsid = pairing.localSessionId
        /\ mPeerConnections'[i].psid = PeerSessionIdOf(pairing)
        /\ mPeerConnections'[i].fabric = f
        /\ mPeerConnections'[i].keyed
        /\ mPeerConnections'[i].sendCtr = 0
        /\ \A j \in UsedSlots(mPeerConnections') :
              (mPeerConnections'[j].node = n /\
               mPeerConnections'[j].lsid = pairing.localSessionId) => j = i
        /\ \A k \in CallbacksNamed(cbs', "OnNewConnection") :
              cbs'[k].session = SessionHandleOf(mPeerConnections'[i])

\* C5 (as amended): a successful NewPairing installs one session with the
\* pairing's local and peer session ids, the given peer node id and the
\* given fabric index, and the handle (peer node id, local session id)
\* resolves to it; it invokes OnNewConnection exactly once with that
\* session's handle when a delegate is registered, and not at all when
\* none is.
C5_NewPairingInstalls ==
    [][(op'.name = "NewPairing" /\ op'.ret = "CHIP_NO_ERROR") =>
        /\ NewPairingInstalls(op'.arg.peerNodeId, op'.arg.pairing, op'.arg.fabric)
        /\ Cardinality(CallbacksNamed(cbs', "OnNewConnection"))
              = IF mCB # NULL THEN 1 ELSE 0
    ]_vars

\* C5 as claimed: OnNewConnection is invoked exactly once by every
\* successful NewPairing.
C5_Original ==
    [][(op'.name = "NewPairing" /\ op'.ret = "CHIP_NO_ERROR") =>
        /\ NewPairingInstalls(op'.arg.peerNodeId, op'.arg.pairing, op'.arg.fabric)
        /\ Cardinality(CallbacksNamed(cbs', "OnNewConnection")) = 1
    ]_vars

\* A NewPairing that replaced a session of the same key: the old one expired
\* upward, the new one announced, and the table holds the new one.
C5_Witness ==
    /\ op.name = "NewPairing"
    /\ op.ret = "CHIP_NO_ERROR"
    /\ Len(cbs) = 2
    /\ cbs[1].cb = "OnConnectionExpired"
    /\ cbs[2].cb = "OnNewConnection"
    /\ cbs[1].session.lsid = cbs[2].session.lsid
    /\ cbs[1].session.fabric # cbs[2].session.fabric
    /\ GetPeerConnectionState(mPeerConnections, cbs[2].session) # 0

\* C6 (as amended): a NewPairing that obtained a slot returns InvalidArgument
\* exactly when the peer address is present, of type UDP or TCP, and has the
\* unspecified IP address; a UDP or TCP address with a concrete IP address
\* is accepted and stored like a BLE address, and an absent address leaves
\* the session's address at its default.
C6_AddressRejection ==
    [][(op'.name = "NewPairing" /\ op'.ret \notin {"crash", "CHIP_ERROR_NO_MEMORY"}) =>
        LET a == op'.arg.peerAddr
            i == GetPeerConnectionState(mPeerConnections',
                     [node |-> op'.arg.peerNodeId, lsid |-> op'.arg.pairing.localSessionId])
        IN  /\ op'.ret = "CHIP_ERROR_INVALID_ARGUMENT" <=>
                  (a.type \in {"kUdp", "kTcp"} /\ a.ip = 0)
            /\ op'.ret = "CHIP_NO_ERROR" =>
                  /\ i # 0
                  /\ mPeerConnections'[i].addr = IF HasValue(a) THEN a ELSE Uninitialized
    ]_vars

\* C6 as claimed: a NewPairing with a present UDP or TCP peer address returns
\* InvalidArgument, and one that succeeds had an absent or BLE address.
C6_Original ==
    [][(op'.name = "NewPairing" /\ op'.ret \notin {"crash", "CHIP_ERROR_NO_MEMORY"}) =>
        /\ op'.arg.peerAddr.type \in {"kUdp", "kTcp"} =>
              op'.ret = "CHIP_ERROR_INVALID_ARGUMENT"
        /\ op'.ret = "CHIP_NO_ERROR" => op'.arg.peerAddr.type \in {"Missing", "kBle"}
    ]_vars

\* A NewPairing with a TCP address of a concrete IP succeeded and the session
\* it installed holds that address.
C6_Witness ==
    /\ op.name = "NewPairing"
    /\ op.ret = "CHIP_NO_ERROR"
    /\ op.arg.peerAddr = Tcp(1)
    /\ \E i \in UsedSlots(mPeerConnections) : mPeerConnections[i].addr = Tcp(1)

\* The callbacks that announce the expiry of the sessions in slots `gone`,
\* one for each: every callback of the last operation is one of them.
OneExpiredCallbackEach(gone) ==
    /\ \A i \in gone :
          Cardinality({k \in CallbacksNamed(cbs', "OnConnectionExpired") :
                          cbs'[k].session = SessionHandleOf(mPeerConnections[i])}) = 1
    /\ Len(cbs') = Cardinality(gone)
    /\ CallbacksNamed(cbs', "OnConnectionExpired") = 1..Len(cbs')

\* C7 (as amended): when ExpireAllPairingsForFabric(F) has returned, no
\* session of fabric F is left in the table; each session it removed
\* produced exactly one OnConnectionExpired when a delegate is registered,
\* and no callback is made when none is.
C7_FabricRevocation ==
    [][(op'.name = "ExpireAllPairingsForFabric" /\ alive') =>
        /\ \A i \in UsedSlots(mPeerConnections') : mPeerConnections'[i].fabric # op'.arg
        /\ IF mCB # NULL THEN OneExpiredCallbackEach(Removed) ELSE cbs' = <<>>
    ]_vars

\* C7 as claimed: each removed session produced exactly one
\* OnConnectionExpired, whatever the delegate.
C7_Original ==
    [][(op'.name = "ExpireAllPairingsForFabric" /\ alive') =>
        /\ \A i \in UsedSlots(mPeerConnections') : mPeerConnections'[i].fabric # op'.arg
        /\ OneExpiredCallbackEach(Removed)
    ]_vars

\* ExpireAllPairingsForFabric removed two sessions of its fabric and called
\* back for both.
C7_Witness ==
    /\ op.name = "ExpireAllPairingsForFabric"
    /\ alive
    /\ Len(cbs) = 2
    /\ cbs[1].session # cbs[2].session
    /\ \A k \in 1..2 : cbs[k].session.fabric = op.arg
    /\ Len(tx) = 2

\* C8: ExpireAllPairingsForFabric(F) leaves every session of another fabric
\* as it was (same slot, keys, counters and peer address), its handle still
\* resolves to it, no OnConnectionExpired names it, and every transport call
\* made is the Disconnect of a removed session of fabric F, at most one for
\* each.
C8_OtherFabricsUntouched ==
    [][op'.name = "ExpireAllPairingsForFabric" =>
        /\ \A i \in UsedSlots(mPeerConnections) :
              mPeerConnections[i].fabric # op'.arg =>
                 /\ mPeerConnections'[i] = mPeerConnections[i]
                 /\ GetPeerConnectionState(mPeerConnections',
                                           SessionHandleOf(mPeerConnections[i])) = i
                 /\ \A k \in 1..Len(cbs') :
                       cbs'[k].session # SessionHandleOf(mPeerConnections[i])
        /\ \A k \in 1..Len(cbs') : cbs'[k].session.fabric = op'.arg
        /\ Len(tx') <= Cardinality(Removed)
        /\ \A k \in 1..Len(tx') :
              /\ tx'[k].call = "Disconnect"
              /\ \E i \in Removed : /\ mPeerConnections[i].fabric = op'.arg
                                    /\ mPeerConnections[i].addr = tx'[k].addr
    ]_vars

\* ExpireAllPairingsForFabric expired a session, with its callback and its
\* Disconnect, and a session of another fabric and another peer is still in
\* the table.
C8_Witness ==
    /\ op.name = "ExpireAllPairingsForFabric"
    /\ Len(cbs) = 1
    /\ Len(tx) = 1
    /\ \E i \in UsedSlots(mPeerConnections) :
          /\ mPeerConnections[i].fabric # op.arg
          /\ mPeerConnections[i].addr # tx[1].addr
          /\ mPeerConnections[i].synced

\* C9: when ExpireAllPairings(node, fabric) has returned, exactly the
\* sessions of that peer node on that fabric are gone; every other session,
\* those of the node on another fabric included, is in its slot as it was.
C9_ExpireAllPairingsExact ==
    [][(op'.name = "ExpireAllPairings" /\ alive') =>
        \A i \in Slots :
           mPeerConnections'[i] =
              IF /\ mPeerConnections[i].used
                 /\ mPeerConnections[i].node = op'.arg.node
                 /\ mPeerConnections[i].fabric = op'.arg.fabric
              THEN FreeSlot ELSE mPeerConnections[i]
    ]_vars

\* ExpireAllPairings removed a session that lay behind a session of the same
\* peer node on another fabric, which is still in the table.
C9_Witness ==
    /\ op.name = "ExpireAllPairings"
    /\ alive
    /\ Len(tx) = 1
    /\ tx[1].addr = Udp(op.arg.node)
    /\ \E i \in UsedSlots(mPeerConnections) :
          /\ mPeerConnections[i].node = op.arg.node
          /\ mPeerConnections[i].fabric # op.arg.fabric
          /\ \A j \in Slots : j <= i => mPeerConnections[j].used
          /\ \E j \in Slots : j > i /\ ~mPeerConnections[j].used

\* What ExpirePairing does to the table and the transport: the session the
\* handle resolves to is freed, with at most its one Disconnect, and no
\* other slot changes; with no such session nothing happens at all.
ExpirePairingFrame(s) ==
    IF s = 0
    THEN /\ mPeerConnections' = mPeerConnections
         /\ cbs' = <<>>
         /\ tx' = <<>>
    ELSE /\ mPeerConnections' = [mPeerConnections EXCEPT ![s] = FreeSlot]
         /\ Len(tx') <= 1
         /\ \A k \in 1..Len(tx') :
               tx'[k] = [call |-> "Disconnect", addr |-> mPeerConnections[s].addr]

\* C10 (as amended): when ExpirePairing(session) has returned it has removed
\* only the session the handle resolves to, and has called
\* OnConnectionExpired for it when a delegate is registered and made no
\* callback when none is; with a handle that resolves to no session it
\* changes no table entry and makes no callback and no Disconnect.
C10_ExpirePairingOnly ==
    [][(op'.name = "ExpirePairing" /\ alive') =>
        LET s == GetPeerConnectionState(mPeerConnections, op'.arg)
        IN  /\ ExpirePairingFrame(s)
            /\ s # 0 =>
                  cbs' = IF mCB = NULL THEN <<>>
                         ELSE <<[cb |-> "OnConnectionExpired",
                                 session |-> SessionHandleOf(mPeerConnections[s])]>>
    ]_vars

\* C10 as claimed: OnConnectionExpired is called for the removed session,
\* whatever the delegate.
C10_Original ==
    [][(op'.name = "ExpirePairing" /\ alive') =>
        LET s == GetPeerConnectionState(mPeerConnections, op'.arg)
        IN  /\ ExpirePairingFrame(s)
            /\ s # 0 =>
                  cbs' = <<[cb |-> "OnConnectionExpired",
                            session |-> SessionHandleOf(mPeerConnections[s])]>>
    ]_vars

\* ExpirePairing removed the session of its handle, called back for it and
\* disconnected it, and a session with the same local session id of another
\* peer node is still in the table.
C10_Witness ==
    /\ op.name = "ExpirePairing"
    /\ alive
    /\ Len(cbs) = 1
    /\ cbs[1].session.node = op.arg.node
    /\ cbs[1].session.lsid = op.arg.lsid
    /\ Len(tx) = 1
    /\ GetPeerConnectionState(mPeerConnections, op.arg) = 0
    /\ \E i \in UsedSlots(mPeerConnections) : mPeerConnections[i].lsid = op.arg.lsid

\* An outbound call on a handle of the authenticated table that resolves to
\* no session.
OnExpiredHandle ==
    /\ op'.name \in {"PrepareMessage", "SendPreparedMessage"}
    /\ op'.arg.session.secure
    /\ GetPeerConnectionState(mPeerConnections, op'.arg.session) = 0

\* C11 (as amended): on a handle that resolves to no session PrepareMessage
\* returns NotConnected; SendPreparedMessage returns IncorrectState when the
\* manager is not Initialized, InvalidArgument when the buffer is null, and
\* NotConnected otherwise; neither hands anything to the transport or
\* changes a table or a counter.
C11_ExpiredHandleFails ==
    [][OnExpiredHandle =>
        /\ tx' = <<>>
        /\ cbs' = <<>>
        /\ alive'
        /\ UNCHANGED <<mPeerConnections, mUnauthenticatedSessions, mGlobalCounter>>
        /\ op'.name = "PrepareMessage" => op'.ret = "CHIP_ERROR_NOT_CONNECTED"
        /\ op'.name = "SendPreparedMessage" =>
              op'.ret = IF mState # "kInitialized" THEN "CHIP_ERROR_INCORRECT_STATE"
                        ELSE IF op'.arg.preparedMessage = "null"
                        THEN "CHIP_ERROR_INVALID_ARGUMENT"
                        ELSE "CHIP_ERROR_NOT_CONNECTED"
    ]_vars

\* C11 as claimed: both calls fail with NotConnected and send nothing.
C11_Original ==
    [][OnExpiredHandle =>
        /\ tx' = <<>>
        /\ op'.ret = "CHIP_ERROR_NOT_CONNECTED"
    ]_vars

\* SendPreparedMessage answered NotConnected on an Initialized manager whose
\* table is empty after a session had been there: the global counter was
\* advanced by a PrepareMessage on that session.
C11_Witness ==
    /\ op.name = "SendPreparedMessage"
    /\ op.ret = "CHIP_ERROR_NOT_CONNECTED"
    /\ mState = "kInitialized"
    /\ mGlobalCounter > 0
    /\ UsedSlots(mPeerConnections) = {}
\* ------------------------------------------------------------------- C12
PreparedOk(o) ==
    o.name = "PrepareMessage" /\ o.ret = "CHIP_NO_ERROR"

\* The send counter a prepare with arguments a takes its value from.
SelectedCounter(a) ==
    IF ~a.session.secure THEN "unauthenticated"
    ELSE GetSendCounterForPacket(a.payloadHeader)

\* The value of that counter in the current state.
SelectedValue(a) ==
    IF ~a.session.secure THEN mUnauthenticatedSessions[a.session.slot].sendCtr
    ELSE IF GetSendCounterForPacket(a.payloadHeader) = "global" THEN mGlobalCounter
    ELSE mPeerConnections[GetPeerConnectionState(mPeerConnections, a.session)].sendCtr

SendCountersOf(c, u, g) ==
    [session |-> [i \in Slots |-> c[i].sendCtr],
     unauthenticated |-> [i \in UnauthSlots |-> u[i].sendCtr],
     global |-> g]

EncryptedReceived ==
    /\ op'.name = "OnMessageReceived"
    /\ op'.arg.datagram.headerOk
    /\ op'.arg.datagram.encrypted

\* The session an encrypted datagram d is for (0 when none).
SessionOf(d) ==
    FindPeerConnectionStateBySessionId(mPeerConnections, d.sessionId)

\* c was committed and is still inside the replay window of r.
CommittedInWindow(r, c) ==
    r.synced /\ (c = r.maxSeen \/ c \in r.window)

\* c is above everything seen from the peer, or inside the window and unseen.
FreshCounter(r, c) ==
    /\ r.synced
    /\ c # r.maxSeen
    /\ c \notin r.window
    /\ c >= r.maxSeen - WindowSize

\* A non-control encrypted datagram arrives for a session with a
\* synchronized peer counter.
OnSyncedSession ==
    /\ EncryptedReceived
    /\ ~op'.arg.datagram.control
    /\ SessionOf(op'.arg.datagram) # 0
    /\ mPeerConnections[SessionOf(op'.arg.datagram)].synced

\* C13 (as amended): on a session with a synchronized peer counter, for a
\* non-control encrypted datagram that decrypts and with a delegate
\* registered: a counter already committed within the window is not
\* delivered without an ack request and is delivered exactly once with
\* is_duplicate=Yes with one; a fresh counter is delivered exactly once with
\* is_duplicate=No.  Without a delegate or when decryption fails there is
\* no upward delivery.
C13_ReplayRejection ==
    [][OnSyncedSession =>
         LET d == op'.arg.datagram
             a == op'.arg.peerAddress
             r == mPeerConnections[SessionOf(d)]
             h == SessionHandleOf(r)
         IN  IF mCB = NULL \/ ~d.decodeOk
             THEN CallbacksNamed(cbs', "OnMessageReceived") = {}
             ELSE /\ (CommittedInWindow(r, d.counter) /\ ~d.needsAck) => cbs' = <<>>
                  /\ (CommittedInWindow(r, d.counter) /\ d.needsAck)
                        => cbs' = <<Delivery(h, a, TRUE)>>
                  /\ FreshCounter(r, d.counter) => cbs' = <<Delivery(h, a, FALSE)>>
    ]_vars

\* C13 as stated: the same three cases for every such datagram.
C13_Original ==
    [][OnSyncedSession =>
         LET d == op'.arg.datagram
             a == op'.arg.peerAddress
             r == mPeerConnections[SessionOf(d)]
             h == SessionHandleOf(r)
         IN  /\ (CommittedInWindow(r, d.counter) /\ ~d.needsAck)
                   => CallbacksNamed(cbs', "OnMessageReceived") = {}
             /\ (CommittedInWindow(r, d.counter) /\ d.decodeOk /\ d.needsAck)
                   => cbs' = <<Delivery(h, a, TRUE)>>
             /\ FreshCounter(r, d.counter) => cbs' = <<Delivery(h, a, FALSE)>>
    ]_vars

\* A replay of a counter committed below max_seen, asking for an ack, was
\* delivered as a duplicate.
C13_Witness ==
    /\ op.name = "OnMessageReceived"
    /\ op.arg.datagram.encrypted
    /\ op.arg.datagram.needsAck
    /\ SessionOf(op.arg.datagram) # 0
    /\ op.arg.datagram.counter \in mPeerConnections[SessionOf(op.arg.datagram)].window
    /\ Len(cbs) = 1
    /\ cbs[1].cb = "OnMessageReceived"
    /\ cbs[1].isDuplicate

\* ------------------------------------------------------------------- C14
\* The operation is the dispatch of a decodable plaintext datagram.
PlaintextReceived ==
    /\ op'.name = "OnMessageReceived"
    /\ op'.arg.datagram.headerOk
    /\ ~op'.arg.datagram.encrypted

\* The unauthenticated sessions of table u for address a.
EntriesOf(u, a) ==
    {i \in UnauthSlots : u[i].used /\ u[i].addr = a}

\* C14 (as amended): the first counter received from an address (no
\* unauthenticated session for it yet, and the table gives one) is adopted
\* as max_seen and, with a delegate registered and a decodable payload
\* header, delivered exactly once with is_duplicate=No; a datagram with the
\* counter the session has as max_seen is delivered exactly once with
\* is_duplicate=Yes under the same conditions; without a delegate or a
\* decodable payload header nothing is delivered; neither case aborts.
C14_TrustFirst ==
    [][PlaintextReceived =>
         LET d == op'.arg.datagram
             a == op'.arg.peerAddress
             before == EntriesOf(mUnauthenticatedSessions, a)
             after  == EntriesOf(mUnauthenticatedSessions', a)
             i == Min(after)
             deliver(dup) == IF mCB # NULL /\ d.decodeOk
                             THEN <<Delivery(UnauthenticatedSessionHandle(i), a, dup)>>
                             ELSE <<>>
         IN  /\ (before = {} /\ after = {}) =>
                   (cbs' = <<>> /\ alive' /\ UNCHANGED mUnauthenticatedSessions)
             /\ (before = {} /\ after # {}) =>
                   /\ alive'
                   /\ mUnauthenticatedSessions'[i].synced
                   /\ mUnauthenticatedSessions'[i].maxSeen = d.counter
                   /\ cbs' = deliver(FALSE)
             /\ (before # {} /\ d.counter = mUnauthenticatedSessions[Min(before)].maxSeen) =>
                   /\ alive'
                   /\ after = before
                   /\ cbs' = deliver(TRUE)
    ]_vars

\* C14 as stated, for the retransmit: the datagram just delivered with
\* is_duplicate=No arrives again from the same address and is not delivered.
C14_Original ==
    [][(/\ PlaintextReceived
        /\ op.name = "OnMessageReceived"
        /\ op.arg = op'.arg
        /\ Len(cbs) = 1
        /\ cbs[1].cb = "OnMessageReceived"
        /\ ~cbs[1].isDuplicate)
         => CallbacksNamed(cbs', "OnMessageReceived") = {}]_vars

\* A plaintext datagram with the session's max_seen was delivered as a
\* duplicate.
C14_Witness ==
    /\ op.name = "OnMessageReceived"
    /\ op.arg.datagram.headerOk
    /\ ~op.arg.datagram.encrypted
    /\ Len(cbs) = 1
    /\ cbs[1].cb = "OnMessageReceived"
    /\ cbs[1].isDuplicate
    /\ cbs[1].addr = op.arg.peerAddress

\* ------------------------------------------------------------------- C15
\* An encrypted datagram arrives whose session id matches no session.
OnUnknownSession ==
    EncryptedReceived /\ SessionOf(op'.arg.datagram) = 0

\* C15 (as amended): an encrypted datagram whose session id matches no
\* authenticated session produces exactly one
\* on_receive_error(KeyNotFoundFromPeer, peer_addr) when a delegate is
\* registered and no callback otherwise; in both cases nothing is handed to
\* the counter-sync service and both session tables stay as they were.
C15_UnknownSession ==
    [][OnUnknownSession =>
         /\ cbs' = IF mCB = NULL THEN <<>>
                   ELSE <<ReceiveError("CHIP_ERROR_KEY_NOT_FOUND_FROM_PEER",
                                       op'.arg.peerAddress)>>
         /\ tx' = <<>>
         /\ alive'
         /\ UNCHANGED <<mPeerConnections, mUnauthenticatedSessions>>
    ]_vars

\* C15 as stated: the error callback is made in every such case.
C15_Original ==
    [][OnUnknownSession =>
         /\ cbs' = <<ReceiveError("CHIP_ERROR_KEY_NOT_FOUND_FROM_PEER", op'.arg.peerAddress)>>
         /\ tx' = <<>>
         /\ UNCHANGED <<mPeerConnections, mUnauthenticatedSessions>>
    ]_vars

\* The error was reported for a session id no session has, beside a live
\* session with another id.
C15_Witness ==
    /\ op.name = "OnMessageReceived"
    /\ op.arg.datagram.encrypted
    /\ op.arg.datagram.sessionId = 2
    /\ UsedSlots(mPeerConnections) # {}
    /\ cbs = <<ReceiveError("CHIP_ERROR_KEY_NOT_FOUND_FROM_PEER", op.arg.peerAddress)>>

\* ------------------------------------------------------------------- C16
\* A non-control encrypted datagram arrives for a session whose peer
\* counter is not synchronized.
OnUnsyncedSession ==
    /\ EncryptedReceived
    /\ ~op'.arg.datagram.control
    /\ SessionOf(op'.arg.datagram) # 0
    /\ ~mPeerConnections[SessionOf(op'.arg.datagram)].synced

\* C16: a non-control encrypted datagram for a session whose peer counter
\* is not synchronized is handed to the counter-sync service exactly once,
\* is not delivered upward, and leaves the session's peer counter, last
\* activity time and peer address as they were; the manager keeps running.
C16_SyncHandOff ==
    [][OnUnsyncedSession =>
         /\ alive'
         /\ Cardinality(CallsNamed(tx', "QueueReceivedMessageAndStartSync")) = 1
         /\ cbs' = <<>>
         /\ UNCHANGED mPeerConnections
    ]_vars

\* ------------------------------------------------------------------- C17
\* The dispatch accepts encrypted datagram d for the session record r: it
\* decrypts and the counter check lets it through to the delivery (a control
\* message, a fresh counter, or a duplicate that requests an ack).
Accepted(r, d) ==
    /\ d.decodeOk
    /\ \/ d.control
       \/ FreshCounter(r, d.counter)
       \/ CommittedInWindow(r, d.counter) /\ d.needsAck

C18_NoFatalAbort ==
    [][op'.name = "OnMessageReceived" => (alive' /\ op'.ret = "void")]_vars

\* ------------------------------------------------------------------- C19
\* The datagram of the operation is dropped for a dispatch error: its
\* packet header does not decode, its session id is unknown, its counter is
\* out of the window of a synchronized session, or it does not decrypt
\* (encrypted) or its payload header does not decode (plaintext).
DroppedForError ==
    /\ op'.name = "OnMessageReceived"
    /\ LET d == op'.arg.datagram
           i == SessionOf(d)
       IN  \/ ~d.headerOk
           \/ d.encrypted /\ i = 0
           \/ /\ d.encrypted /\ i # 0 /\ ~d.control
              /\ mPeerConnections[i].synced
              /\ d.counter < mPeerConnections[i].maxSeen - WindowSize
           \/ /\ d.encrypted /\ i # 0
              /\ (d.control \/ mPeerConnections[i].synced)
              /\ ~d.decodeOk
           \/ ~d.encrypted /\ ~d.decodeOk

\* C19: with a delegate registered, every datagram dropped for a dispatch
\* error is reported by an on_receive_error callback with the peer address.
C19_ErrorsSurfaced ==
    [][(DroppedForError /\ mCB # NULL) =>
         \E k \in CallbacksNamed(cbs', "OnReceiveError") :
             cbs'[k].addr = op'.arg.peerAddress]_vars

\* ------------------------------------------------------------------- C20
\* One expiry timer is pending while Initialized, none while NotReady.
OneTimerWhileInitialized ==
    alive => timerPending = (IF mState = "kInitialized" THEN 1 ELSE 0)

\* C20: in a running manager exactly one expiry timer is pending whenever
\* the state is Initialized and none whenever it is NotReady; a successful
\* Init schedules one, a timer callback runs only while Initialized and
\* leaves one pending, and Shutdown leaves none.
C20_ExpiryTimer ==
    /\ OneTimerWhileInitialized
    /\ [][/\ OneTimerWhileInitialized'
          /\ (op'.name = "Init" /\ op'.ret = "CHIP_NO_ERROR")
                => (timerPending = 0 /\ timerPending' = 1)
          /\ op'.name = "ExpiryTimerCallback"
                => (mState = "kInitialized" /\ timerPending = 1
                    /\ (alive' => timerPending' = 1))
          /\ op'.name = "Shutdown" => timerPending' = 0
         ]_vars

\* The timer fired and was scheduled again in an Initialized manager that
\* has taken plaintext traffic and has no delegate.
C20_Witness ==
    /\ op.name = "ExpiryTimerCallback"
    /\ op.ret = "void"
    /\ mState = "kInitialized"
    /\ timerPending = 1
    /\ mCB = NULL
    /\ \E i \in UnauthSlots : mUnauthenticatedSessions[i].synced
                              /\ mUnauthenticatedSessions[i].maxSeen = MaxPeerCounter

\* ------------------------------------------------------------------- C21
\* The authenticated sessions idle for longer than the timeout.
IdleSessions ==
    {i \in Slots : mPeerConnections[i].used
                   /\ now - mPeerConnections[i].last > PeerConnectionTimeout}

\* C21: a run of the expiry timer callback removes every authenticated
\* session idle for longer than the timeout, with one on_connection_expired
\* and one disconnect for each, and removes no unauthenticated session.
C21_TimerSweeps ==
    [][(op'.name = "ExpiryTimerCallback" /\ op'.ret = "void") =>
         /\ \A i \in IdleSessions : ~mPeerConnections'[i].used
         /\ Cardinality(CallbacksNamed(cbs', "OnConnectionExpired")) = Cardinality(IdleSessions)
         /\ Cardinality(CallsNamed(tx', "Disconnect")) = Cardinality(IdleSessions)
         /\ UNCHANGED mUnauthenticatedSessions
    ]_vars

\* ------------------------------------------------------------------- C22
\* The slots whose session the operation destroys: freed, given to another
\* session, or holding the session a NewPairing replaces.
Destroyed ==
    {i \in Slots :
        /\ mPeerConnections[i].used
        /\ \/ ~mPeerConnections'[i].used
           \/ SessionHandleOf(mPeerConnections'[i]) # SessionHandleOf(mPeerConnections[i])
           \/ /\ op'.name = "NewPairing"
              /\ i = FindPeerConnectionStateByLocalKey(mPeerConnections, op'.arg.peerNodeId,
                                                       op'.arg.pairing.localSessionId)}

\* C22: every session an operation removes from the authenticated table is
\* announced by an on_connection_expired with its handle and by a disconnect
\* with the peer address it recorded.
C22_RemovalAnnounced ==
    [][\A i \in Destroyed :
          /\ \E k \in CallbacksNamed(cbs', "OnConnectionExpired") :
                cbs'[k].session = SessionHandleOf(mPeerConnections[i])
          /\ \E k \in CallsNamed(tx', "Disconnect") :
                tx'[k].addr = mPeerConnections[i].addr
    ]_vars

\* ------------------------------------------------------------------- C23
\* An encrypted datagram with the control-message flag arrives for a
\* session.
OnControlMessage ==
    /\ EncryptedReceived
    /\ op'.arg.datagram.control
    /\ SessionOf(op'.arg.datagram) # 0

PeerCounterOfSession(r) ==
    [synced |-> r.synced, maxSeen |-> r.maxSeen, window |-> r.window]

\* C23 (as amended): the control-message flag takes a datagram out of the
\* peer-counter logic: its counter is neither verified nor committed and the
\* session need not be synchronized; the peer counter stays as it was,
\* nothing is handed to the counter-sync service and no error is reported,
\* and when it decrypts and a delegate is registered it is delivered with
\* is_duplicate=No, replayed or not.
C23_ControlSkipsCounter ==
    [][OnControlMessage =>
         LET d == op'.arg.datagram
             i == SessionOf(d)
         IN  /\ PeerCounterOfSession(mPeerConnections'[i])
                  = PeerCounterOfSession(mPeerConnections[i])
             /\ tx' = <<>>
             /\ cbs' = IF d.decodeOk /\ mCB # NULL
                       THEN <<Delivery(SessionHandleOf(mPeerConnections[i]),
                                       op'.arg.peerAddress, FALSE)>>
                       ELSE <<>>
    ]_vars

\* C23 as stated: on a synchronized session a control message with a
\* committed counter is not delivered as a fresh one, and a delivered control
\* message with a fresh counter has its counter committed.
C23_Original ==
    [][(OnControlMessage /\ mPeerConnections[SessionOf(op'.arg.datagram)].synced) =>
         LET d == op'.arg.datagram
             i == SessionOf(d)
             r == mPeerConnections[i]
         IN  /\ CommittedInWindow(r, d.counter) =>
                   \A k \in CallbacksNamed(cbs', "OnMessageReceived") : cbs'[k].isDuplicate
             /\ (FreshCounter(r, d.counter) /\ CallbacksNamed(cbs', "OnMessageReceived") # {}) =>
                   CommittedInWindow(mPeerConnections'[i], d.counter)
    ]_vars

\* A control message carrying the session's max_seen was delivered as not a
\* duplicate.
C23_Witness ==
    /\ op.name = "OnMessageReceived"
    /\ op.arg.datagram.encrypted
    /\ op.arg.datagram.control
    /\ SessionOf(op.arg.datagram) # 0
    /\ mPeerConnections[SessionOf(op.arg.datagram)].synced
    /\ mPeerConnections[SessionOf(op.arg.datagram)].maxSeen = op.arg.datagram.counter
    /\ Len(cbs) = 1
    /\ cbs[1].cb = "OnMessageReceived"
    /\ ~cbs[1].isDuplicate

\* ------------------------------------------------------------------- C24
\* An encrypted datagram arrives for a session with a synchronized peer
\* counter.
OnSyncedSessionAny ==
    /\ EncryptedReceived
    /\ SessionOf(op'.arg.datagram) # 0
    /\ mPeerConnections[SessionOf(op'.arg.datagram)].synced

OutOfWindow(r, c) ==
    r.synced /\ c < r.maxSeen - WindowSize

\* The operation leaves the peer counter and the peer address of slot i.
CounterAndAddressKept(i) ==
    /\ PeerCounterOfSession(mPeerConnections'[i]) = PeerCounterOfSession(mPeerConnections[i])
    /\ mPeerConnections'[i].addr = mPeerConnections[i].addr

\* C24 (as amended): a non-control datagram whose counter is out of the
\* window changes nothing in the session table and is not delivered; a
\* datagram that does not decrypt changes neither the peer counter nor the
\* peer address and is not delivered; and an inbound datagram changes the
\* peer counter or the peer address of a session only when it decrypts and,
\* unless it is a control message, its counter was verified as fresh or as a
\* duplicate that requests an ack.
C24_VerifyDecryptCommit ==
    [][/\ OnSyncedSessionAny =>
            LET d == op'.arg.datagram
                i == SessionOf(d)
                r == mPeerConnections[i]
            IN  /\ (~d.control /\ OutOfWindow(r, d.counter)) =>
                      /\ mPeerConnections' = mPeerConnections
                      /\ CallbacksNamed(cbs', "OnMessageReceived") = {}
                /\ ~d.decodeOk =>
                      /\ CounterAndAddressKept(i)
                      /\ CallbacksNamed(cbs', "OnMessageReceived") = {}
       /\ op'.name = "OnMessageReceived" =>
            \A i \in Slots :
               ~CounterAndAddressKept(i) =>
                  /\ op'.arg.datagram.encrypted
                  /\ i = SessionOf(op'.arg.datagram)
                  /\ Accepted(mPeerConnections[i], op'.arg.datagram)
    ]_vars

\* C24 as stated: every datagram whose counter is out of the window, and
\* every one that does not decrypt, leaves the peer counter and the peer
\* address and is not delivered.
C24_Original ==
    [][OnSyncedSessionAny =>
         LET d == op'.arg.datagram
             i == SessionOf(d)
         IN  (OutOfWindow(mPeerConnections[i], d.counter) \/ ~d.decodeOk) =>
                /\ CounterAndAddressKept(i)
                /\ CallbacksNamed(cbs', "OnMessageReceived") = {}
    ]_vars

\* A datagram with a fresh counter from the recorded address failed to
\* decrypt on a session whose max_seen is above the pairing's counter.
C24_Witness ==
    /\ op.name = "OnMessageReceived"
    /\ op.arg.datagram.encrypted
    /\ ~op.arg.datagram.control
    /\ ~op.arg.datagram.decodeOk
    /\ SessionOf(op.arg.datagram) # 0
    /\ mPeerConnections[SessionOf(op.arg.datagram)].synced
    /\ mPeerConnections[SessionOf(op.arg.datagram)].maxSeen > 0
    /\ op.arg.datagram.counter > mPeerConnections[SessionOf(op.arg.datagram)].maxSeen
    /\ cbs = <<>>

\* ------------------------------------------------------------------- C25
\* C25: ExpireAllPairings and ExpireAllPairingsForFabric return for every
\* content of the table: their loops end within MaxIterations iterations,
\* and they remove at most as many sessions as the table held at the call,
\* each of them once.
C25_BulkExpiryTerminates ==
    [][op'.name \in {"ExpireAllPairings", "ExpireAllPairingsForFabric"} =>
         LET r == IF op'.name = "ExpireAllPairings"
                  THEN ExpireAllPairingsResult(mPeerConnections, op'.arg.node, op'.arg.fabric)
                  ELSE ExpireAllPairingsForFabricResult(mPeerConnections, op'.arg)
             n == Cardinality(UsedSlots(mPeerConnections))
         IN  /\ op'.ret # "hang"
             /\ r.terminated
             /\ r.iterations <= n * (n + 1)
             /\ Len(r.expired) <= n
             /\ Cardinality(UsedSlots(r.conns)) = n - Len(r.expired)
             /\ alive' => Cardinality(Removed) = Len(r.expired)
    ]_vars

\* ExpireAllPairings returned from a full table in which it passed a session
\* of another fabric and removed one.
C25_Witness ==
    /\ op.name = "ExpireAllPairings"
    /\ op.ret = "void"
    /\ Len(tx) = 1
    /\ Cardinality(UsedSlots(mPeerConnections)) = MaxConnections - 1
    /\ \E i \in UsedSlots(mPeerConnections) :
          /\ mPeerConnections[i].node = op.arg.node
          /\ mPeerConnections[i].fabric # op.arg.fabric

\* ------------------------------------------------------------------- C26
\* C26: every session of the authenticated table holds keys derived by
\* DeriveSecureSession, that is, it was installed by a NewPairing that
\* returned CHIP_NO_ERROR; a NewPairing that returns an error leaves no
\* entry behind.
C26_OnlyKeyedSessions ==
    \A i \in UsedSlots(mPeerConnections) : mPeerConnections[i].keyed

\* ------------------------------------------------------------------- C27
\* C27: after every successful NewPairing the peer counter of the new
\* session is set from the pairing (its greatest counter seen is the
\* pairing's peer counter and it is synchronized), with or without a
\* registered delegate.
C27_PeerCounterSeeded ==
    [][(op'.name = "NewPairing" /\ op'.ret = "CHIP_NO_ERROR") =>
         LET i == GetPeerConnectionState(mPeerConnections',
                      [node |-> op'.arg.peerNodeId,
                       lsid |-> op'.arg.pairing.localSessionId])
         IN  /\ i # 0
             /\ mPeerConnections'[i].synced
             /\ mPeerConnections'[i].maxSeen = PeerCounterOf(op'.arg.pairing)
    ]_vars

\* ------------------------------------------------------------------- C28
\* C28: for one datagram the manager makes at most one upward or sideways
\* call: one OnMessageReceived, or one OnReceiveError, or one hand-off to
\* QueueReceivedMessageAndStartSync; a datagram is never both delivered and
\* reported as an error.
C28_OneOutcomePerDatagram ==
    [][op'.name = "OnMessageReceived" =>
         /\ Cardinality(CallbacksNamed(cbs', "OnMessageReceived"))
              + Cardinality(CallbacksNamed(cbs', "OnReceiveError"))
              + Cardinality(CallsNamed(tx', "QueueReceivedMessageAndStartSync")) <= 1
         /\ Len(cbs') + Len(tx') <= 1
         /\ (CallbacksNamed(cbs', "OnMessageReceived") # {}
               => CallbacksNamed(cbs', "OnReceiveError") = {})
    ]_vars

\* An encrypted duplicate that requests an ack was delivered upward, which
\* is the delivery that passes the exit label with the error reset.
C28_Witness ==
    /\ op.name = "OnMessageReceived"
    /\ op.arg.datagram.encrypted
    /\ op.arg.datagram.needsAck
    /\ Len(cbs) = 1
    /\ cbs[1].cb = "OnMessageReceived"
    /\ cbs[1].isDuplicate
    /\ tx = <<>>

\* ------------------------------------------------------------------- C29
\* C29: the expiry handler never runs without a transport manager: no
\* ExpirePairing, ExpireAllPairings, ExpireAllPairingsForFabric or
\* NewPairing expires a session while mTransportMgr is null, so none of them
\* ends in the null dereference of HandleConnectionExpired.
C29_TransportPresentAtExpiry ==
    [][op'.name \in {"ExpirePairing", "ExpireAllPairings",
                     "ExpireAllPairingsForFabric", "NewPairing"} =>
         /\ op'.ret # "crash"
         /\ (Destroyed # {} => mTransportMgr # NULL)
    ]_vars

====
